---------------------------- MODULE Spec2Model ----------------------------
(***************************************************************************)
(* A model of the finance tracker: the account registry                    *)
(* (bank_accounts.py), the multi-account sync (sync.py) and the header     *)
(* setup (setup.py), with the spreadsheet backend, the provider and the    *)
(* file system as nondeterministic environments.                           *)
(*                                                                         *)
(* Strings the code computes on (names, descriptions) are sequences of     *)
(* one-character strings; strings it only compares (transaction ids,       *)
(* credentials, category labels) are TLA+ strings.                         *)
(***************************************************************************)
EXTENDS Naturals, Sequences, FiniteSets

(***************************************************************************)
(* Bounds of the model.                                                    *)
(***************************************************************************)
MaxAccounts    == 1   \* Spec: accounts in the manager's registry
MaxClock       == 2   \* Spec: clock seconds 1..MaxClock
MaxBatch       == 2   \* Spec: transactions the provider holds for one credential
MaxRows        == 3   \* Spec: rows of one sheet
MaxRegAccounts == 3   \* SpecRegistry: accounts in the manager's registry
SweepAccounts  == 2   \* SpecSweep: accounts in the manager's registry
SweepBatch     == 1   \* SpecSweep: transactions the provider holds for one credential
SweepRows      == 2   \* SpecSweep: rows of one sheet
OpsAccounts    == 2   \* SpecOps: accounts in the manager's registry
KillBatch      == 2   \* SpecKill: transactions a fetch returns
KillRows       == 5   \* SpecKill: rows of a sheet
NameAccounts   == 3   \* SpecNames: accounts in the manager's registry
OrderAccounts  == 1   \* SpecOrder: accounts in the manager's registry
OrderBatch     == 2   \* SpecOrder: transactions a fetch returns
OrderRows      == 5   \* SpecOrder: rows of a sheet
ReloadAccounts == 2   \* SpecReload: accounts in the manager's registry
ReuseAccounts  == 1   \* SpecReuse: accounts in the manager's registry
ReuseBatch     == 1   \* SpecReuse: transactions a fetch returns
ReuseRows      == 3   \* SpecReuse: rows of a sheet
CallAccounts   == 2   \* SpecCalls: accounts in the manager's registry
MaxWords       == 2   \* SpecClassify: words in a transaction's description

(***************************************************************************)
(* Characters and strings.                                                 *)
(***************************************************************************)
LowerChars == <<"a", "b", "c", "d", "e", "f", "g", "h", "i", "j", "k", "l", "m",
                "n", "o", "p", "q", "r", "s", "t", "u", "v", "w", "x", "y", "z">>
UpperChars == <<"A", "B", "C", "D", "E", "F", "G", "H", "I", "J", "K", "L", "M",
                "N", "O", "P", "Q", "R", "S", "T", "U", "V", "W", "X", "Y", "Z">>
DigitChars == <<"0", "1", "2", "3", "4", "5", "6", "7", "8", "9">>

Range(s) == {s[i] : i \in 1..Len(s)}

\* \w of Python's re on str: letters, digits and the underscore
WordChars == Range(LowerChars) \cup Range(UpperChars) \cup Range(DigitChars) \cup {"_"}
IsWord(c) == c \in WordChars
\* \s of Python's re
IsSpace(c) == c \in {" ", "\t", "\n"}

\* str(n) of a natural number: its decimal digits
RECURSIVE Str(_)
Str(n) == IF n < 10 THEN <<DigitChars[n + 1]>>
          ELSE Str(n \div 10) \o <<DigitChars[(n % 10) + 1]>>

\* re.sub(r'[^\w\s-]', '', s)
StripSpecial(s) == SelectSeq(s, LAMBDA c : IsWord(c) \/ IsSpace(c) \/ c = "-")

RECURSIVE DropSpaces(_)
DropSpaces(s) == IF s # <<>> /\ IsSpace(Head(s)) THEN DropSpaces(Tail(s)) ELSE s

\* re.sub(r'\s+', ' ', s): every run of whitespace becomes one space
CollapseSpaces(s) ==
    LET kept == SelectSeq([i \in 1..Len(s) |-> i],
                          LAMBDA i : ~(IsSpace(s[i]) /\ i > 1 /\ IsSpace(s[i - 1])))
    IN  [k \in 1..Len(kept) |-> IF IsSpace(s[kept[k]]) THEN " " ELSE s[kept[k]]]

RECURSIVE DropSpacesRight(_)
DropSpacesRight(s) ==
    IF s # <<>> /\ IsSpace(s[Len(s)]) THEN DropSpacesRight(SubSeq(s, 1, Len(s) - 1)) ELSE s

\* str.strip()
Strip(s) == DropSpacesRight(DropSpaces(s))

(***************************************************************************)
(* Names the model registers accounts under, and the provider's data.      *)
(***************************************************************************)
NoName       == <<>>          \* account_name None or "" (both falsy)
Chase        == <<"C", "h", "a", "s", "e">>
Chase1       == <<"C", "h", "a", "s", "e", " ", "1">>
ChaseBang    == <<"C", "h", "a", "s", "e", " ", "!">>
BofA         == <<"B", "o", "f", "A">>
LegacyName   == <<"L", "e", "g", "a", "c", "y", " ", "B", "a", "n", "k", " ",
                  "A", "c", "c", "o", "u", "n", "t">>
BankAccountPrefix == <<"B", "a", "n", "k", " ", "A", "c", "c", "o", "u", "n", "t", " ">>
Ellipsis     == <<".", ".", ".">>

ValidCredentials == {"tokA", "tokB"}
Credentials      == ValidCredentials \cup {"tokBad"}
LegacyToken      == "tokA"

\* item_get(...).item.institution_name
Institution(cred) == IF cred = "tokA" THEN Chase ELSE BofA
\* accounts_get(...).accounts, as stored by add_account
SubAccounts(cred) ==
    IF cred = "tokA"
    THEN <<[account_id |-> "subA", type |-> "depository", mask |-> "0000"]>>
    ELSE <<[account_id |-> "subB", type |-> "credit", mask |-> "1111"]>>

\* line 105-106: the longest sheet name before the uniqueness loop, and what
\* is kept of a longer one
MaxSheetNameLen == 100
KeptLen         == 97

\* account names as long as a sheet name may be, and one character longer
LongName    == [i \in 1..MaxSheetNameLen |-> "x"]
TooLongName == [i \in 1..MaxSheetNameLen + 1 |-> "y"]

(***************************************************************************)
(* The registry: BankAccountManager.accounts, a dict in insertion order,   *)
(* as a sequence of records whose id field is the key.                     *)
(***************************************************************************)
None            == 0          \* last_sync: None; a time is 1..MaxClock

Ids(accts)        == {accts[i].id : i \in 1..Len(accts)}
SheetNames(accts) == {accts[i].sheet_name : i \in 1..Len(accts)}

\* a uniqueness loop whose first candidate is the base name and " 2"
RECURSIVE CounterLoopSkipsOne(_, _, _)
CounterLoopSkipsOne(original_name, existing_sheets, counter) ==
    LET clean_name == original_name \o <<" ">> \o Str(counter + 1)
    IN  IF clean_name \in existing_sheets
        THEN CounterLoopSkipsOne(original_name, existing_sheets, counter + 1)
        ELSE clean_name

\* lines 108-117: the uniqueness loop, from counter on
RECURSIVE CounterLoop(_, _, _)
CounterLoop(original_name, existing_sheets, counter) ==
    LET clean_name == original_name \o <<" ">> \o Str(counter)
    IN  IF clean_name \in existing_sheets
        THEN CounterLoop(original_name, existing_sheets, counter + 1)
        ELSE clean_name

\* the name before the uniqueness loop
CleanName(institution_name, account_name) ==
    LET base_name == IF account_name # NoName THEN account_name ELSE institution_name
        clean     == Strip(CollapseSpaces(StripSpecial(base_name)))
    IN  IF Len(clean) > MaxSheetNameLen THEN SubSeq(clean, 1, KeptLen) \o Ellipsis
        ELSE clean

\* a sheet name taken without looking at the names in use
GenerateSheetNameNoLoop(accts, institution_name, account_name) ==
    CleanName(institution_name, account_name)

\* _generate_sheet_name
GenerateSheetName(accts, institution_name, account_name) ==
    LET clean_name == CleanName(institution_name, account_name)
    IN  IF clean_name \in SheetNames(accts)
        THEN CounterLoop(clean_name, SheetNames(accts), 1)
        ELSE clean_name

\* account_id = f"account_{len(self.accounts) + 1}_{now:%Y%m%d_%H%M%S}": the
\* text is determined by, and determines, the pair (count, clock second)
AccountId(accts, t) == <<Len(accts) + 1, t>>

\* self.accounts[account_id] = account_data
Put(accts, rec) ==
    IF rec.id \in Ids(accts)
    THEN [i \in 1..Len(accts) |-> IF accts[i].id = rec.id THEN rec ELSE accts[i]]
    ELSE Append(accts, rec)

\* the record add_account builds, after the provider has answered
AccountData(accts, access_token, account_name, t) ==
    [id               |-> AccountId(accts, t),
     access_token     |-> access_token,
     account_name     |-> IF account_name # NoName THEN account_name
                          ELSE BankAccountPrefix \o Str(Len(accts) + 1),
     institution_name |-> Institution(access_token),
     sheet_name       |-> GenerateSheetName(accts, Institution(access_token), account_name),
     accounts         |-> SubAccounts(access_token),
     created_at       |-> t,
     last_sync        |-> None]

AddAccount(accts, access_token, account_name, t) ==
    Put(accts, AccountData(accts, access_token, account_name, t))

\* a removal that takes the oldest account, whatever the id
RemoveOldest(accts, id) == Tail(accts)

\* del self.accounts[account_id]
Remove(accts, id) == SelectSeq(accts, LAMBDA a : a.id # id)

\* an update that stamps every account
SetLastSyncOfAll(accts, id, t) ==
    [i \in 1..Len(accts) |-> [accts[i] EXCEPT !.last_sync = t]]

\* update_last_sync, in memory
SetLastSync(accts, id, t) ==
    [i \in 1..Len(accts) |-> IF accts[i].id = id THEN [accts[i] EXCEPT !.last_sync = t]
                             ELSE accts[i]]

(***************************************************************************)
(* The registry file.  _save_accounts opens the file for writing, which    *)
(* truncates it, dumps the dict and swallows every exception: the save     *)
(* succeeds, fails before the file is opened, or fails after truncation.   *)
(***************************************************************************)
SaveOutcomes == {"ok", "unchanged", "torn"}

EmptyFile == [state |-> "ok", accts |-> <<>>]
TornFile  == [state |-> "torn", accts |-> <<>>]

SaveAccounts(old, accts, outcome) ==
    CASE outcome = "ok"        -> [state |-> "ok", accts |-> accts]
      [] outcome = "unchanged" -> old
      [] OTHER                 -> TornFile

\* _load_accounts: a missing or unparsable file gives {}
LoadAccounts(f) == IF f.state = "ok" THEN f.accts ELSE <<>>


(***************************************************************************)
(* The classifier: categorize_transaction of sync.py.                      *)
(***************************************************************************)
LowerChar(c) ==
    IF c \in Range(UpperChars)
    THEN LowerChars[CHOOSE k \in 1..Len(UpperChars) : UpperChars[k] = c]
    ELSE c

\* str.lower()
Lower(s) == [i \in 1..Len(s) |-> LowerChar(s[i])]

\* kw in s
Contains(s, kw) ==
    \E i \in 0..Len(s) : i + Len(kw) <= Len(s) /\ SubSeq(s, i + 1, i + Len(kw)) = kw

SUBCONTRACTOR_DATABASE == <<
    [keyword |-> <<"a", "l", "l", "-", "p", "r", "o", " ", "p", "l", "u", "m", "b", "i", "n", "g">>,
     service |-> "Plumbing"],
    [keyword |-> <<"j", "&", "l", " ", "e", "l", "e", "c", "t", "r", "i", "c">>,
     service |-> "Electrical"],
    [keyword |-> <<"s", "a", "l", "'", "s", " ", "d", "r", "y", "w", "a", "l", "l">>,
     service |-> "Drywall & Paint"],
    [keyword |-> <<"c", "r", "e", "a", "t", "i", "v", "e", " ", "l", "a", "n", "d", "s", "c", "a", "p", "e">>,
     service |-> "Landscaping"],
    [keyword |-> <<"b", "e", "s", "t", " ", "q", "u", "a", "l", "i", "t", "y", " ", "r", "o", "o", "f", "i", "n", "g">>,
     service |-> "Roofing"],
    [keyword |-> <<"a", "-", "1", " ", "p", "a", "i", "n", "t", "i", "n", "g">>,
     service |-> "Drywall & Paint"],
    [keyword |-> <<"p", "r", "e", "c", "i", "s", "i", "o", "n", " ", "f", "r", "a", "m", "i", "n", "g">>,
     service |-> "Framing"],
    [keyword |-> <<"e", "l", "i", "t", "e", " ", "c", "o", "n", "c", "r", "e", "t", "e">>,
     service |-> "Concrete & Foundation"],
    [keyword |-> <<"c", "u", "s", "t", "o", "m", " ", "c", "a", "b", "i", "n", "e", "t", "r", "y">>,
     service |-> "Cabinets & Millwork"],
    [keyword |-> <<"t", "o", "t", "a", "l", " ", "h", "o", "m", "e", " ", "i", "n", "s", "u", "l", "a", "t", "i", "o", "n">>,
     service |-> "Insulation"],
    [keyword |-> <<"f", "l", "o", "r", "e", "s", " ", "t", "i", "l", "e", " ", "&", " ", "s", "t", "o", "n", "e">>,
     service |-> "Flooring & Tile"],
    [keyword |-> <<"w", "i", "n", "d", "o", "w", " ", "w", "o", "r", "l", "d">>,
     service |-> "Windows & Doors"]
>>
BillPayMarkers == {<<"q", "u", "i", "c", "k", "b", "o", "o", "k", "s">>,
    <<"i", "n", "t", "u", "i", "t">>}
ZelleMarker == <<"z", "e", "l", "l", "e">>
CheckMarker == <<"c", "h", "e", "c", "k", " ", "#">>
MaterialVendors == {<<"h", "o", "m", "e", " ", "d", "e", "p", "o", "t">>,
    <<"l", "o", "w", "e", "'", "s">>,
    <<"s", "h", "e", "r", "w", "i", "n", "-", "w", "i", "l", "l", "i", "a", "m", "s">>}
RentalVendors == {<<"s", "u", "n", "b", "e", "l", "t">>,
    <<"u", "n", "i", "t", "e", "d", " ", "r", "e", "n", "t", "a", "l", "s">>}
FuelVendors == {<<"c", "h", "e", "v", "r", "o", "n">>,
    <<"s", "h", "e", "l", "l">>,
    <<"7", "6">>}

\* a scan that takes the service of the entry scanned first, hit or not, as
\* soon as any entry is a hit
ScanInBlind(order, name, k) ==
    IF \E e \in 1..Len(SUBCONTRACTOR_DATABASE) :
          Contains(name, SUBCONTRACTOR_DATABASE[e].keyword)
    THEN SUBCONTRACTOR_DATABASE[order[1]].service
    ELSE "none"

\* the for loop over SUBCONTRACTOR_DATABASE.items() were the entries of the
\* dict written in another order: order[k] is the entry scanned k-th
RECURSIVE ScanIn(_, _, _)
ScanIn(order, name, k) ==
    IF k > Len(order) THEN "none"
    ELSE IF Contains(name, SUBCONTRACTOR_DATABASE[order[k]].keyword)
         THEN SUBCONTRACTOR_DATABASE[order[k]].service
         ELSE ScanIn(order, name, k + 1)

\* orders of the table: the first entry exchanged with another (with none, for
\* j = 1), or the table rotated
Swapped(i, j) ==
    [k \in 1..Len(SUBCONTRACTOR_DATABASE) |-> IF k = i THEN j ELSE IF k = j THEN i ELSE k]
Rotated(r) ==
    [k \in 1..Len(SUBCONTRACTOR_DATABASE) |->
        ((k + r - 1) % Len(SUBCONTRACTOR_DATABASE)) + 1]
Orders ==
    {Swapped(1, j) : j \in 1..Len(SUBCONTRACTOR_DATABASE)}
    \cup {Rotated(r) : r \in 1..Len(SUBCONTRACTOR_DATABASE)}

\* the for loop over SUBCONTRACTOR_DATABASE.items(), in the dict's order
RECURSIVE SubcontractorScan(_, _)
SubcontractorScan(name, k) ==
    IF k > Len(SUBCONTRACTOR_DATABASE) THEN "none"
    ELSE IF Contains(name, SUBCONTRACTOR_DATABASE[k].keyword)
         THEN SUBCONTRACTOR_DATABASE[k].service
         ELSE SubcontractorScan(name, k + 1)

\* a classifier that looks for the fuel vendors before the bill-pay markers
categorize_fuel_first(txn_name) ==
    LET name == Lower(txn_name)
    IN  IF \E v \in FuelVendors : Contains(name, v)
          THEN [category |-> "Fuel", project |-> "Admin"]
        ELSE IF \E m \in BillPayMarkers : Contains(name, m)
          THEN [category |-> "QuickBooks Bill Pay", project |-> "NEEDS REVIEW"]
        ELSE IF Contains(name, ZelleMarker)
          THEN [category |-> "Zelle Payment", project |-> "Bellevue"]
        ELSE IF Contains(name, CheckMarker)
          THEN [category |-> "Subcontractor Payout", project |-> "Bellevue"]
        ELSE IF SubcontractorScan(name, 1) # "none"
          THEN [category |-> SubcontractorScan(name, 1), project |-> "Bellevue"]
        ELSE IF \E v \in MaterialVendors : Contains(name, v)
          THEN [category |-> "Materials", project |-> "Bellevue"]
        ELSE IF \E v \in RentalVendors : Contains(name, v)
          THEN [category |-> "Equipment Rental", project |-> "Bellevue"]
        ELSE [category |-> "Uncategorized", project |-> "Unknown"]

\* a classifier that gives up on an empty name
categorize_named_only(txn_name) ==
    IF txn_name = <<>> THEN [category |-> "", project |-> ""]
    ELSE categorize_fuel_first(txn_name)

\* txn_name is t.name; a missing name (None) and "" are both the empty sequence
categorize_transaction(txn_name) ==
    LET name == Lower(txn_name)
    IN  IF \E m \in BillPayMarkers : Contains(name, m)
          THEN [category |-> "QuickBooks Bill Pay", project |-> "NEEDS REVIEW"]
        ELSE IF Contains(name, ZelleMarker)
          THEN [category |-> "Zelle Payment", project |-> "Bellevue"]
        ELSE IF Contains(name, CheckMarker)
          THEN [category |-> "Subcontractor Payout", project |-> "Bellevue"]
        ELSE IF SubcontractorScan(name, 1) # "none"
          THEN [category |-> SubcontractorScan(name, 1), project |-> "Bellevue"]
        ELSE IF \E v \in MaterialVendors : Contains(name, v)
          THEN [category |-> "Materials", project |-> "Bellevue"]
        ELSE IF \E v \in RentalVendors : Contains(name, v)
          THEN [category |-> "Equipment Rental", project |-> "Bellevue"]
        ELSE IF \E v \in FuelVendors : Contains(name, v)
          THEN [category |-> "Fuel", project |-> "Admin"]
        ELSE [category |-> "Uncategorized", project |-> "Unknown"]

(***************************************************************************)
(* finance_tracker_sheets.py: the classifier of the single-ledger script.  *)
(***************************************************************************)
\* lines 131-144: the table of categorize
SHEETS_SUBCONTRACTOR_DATABASE == <<
    [keyword |-> <<"a", "l", "l", "-", "p", "r", "o", " ", "p", "l", "u", "m", "b", "i", "n", "g">>,
     service |-> "Plumbing"],
    [keyword |-> <<"j", "&", "l", " ", "e", "l", "e", "c", "t", "r", "i", "c">>,
     service |-> "Electrical"],
    [keyword |-> <<"s", "a", "l", "'", "s", " ", "d", "r", "y", "w", "a", "l", "l">>,
     service |-> "Drywall & Paint"],
    [keyword |-> <<"c", "r", "e", "a", "t", "i", "v", "e", " ", "l", "a", "n", "d", "s", "c", "a", "p", "e">>,
     service |-> "Landscaping"],
    [keyword |-> <<"b", "e", "s", "t", " ", "q", "u", "a", "l", "i", "t", "y", " ", "r", "o", "o", "f", "i", "n", "g">>,
     service |-> "Roofing"],
    [keyword |-> <<"a", "-", "1", " ", "p", "a", "i", "n", "t", "i", "n", "g">>,
     service |-> "Drywall & Paint"],
    [keyword |-> <<"p", "r", "e", "c", "i", "s", "i", "o", "n", " ", "f", "r", "a", "m", "i", "n", "g">>,
     service |-> "Framing"],
    [keyword |-> <<"e", "l", "i", "t", "e", " ", "c", "o", "n", "c", "r", "e", "t", "e">>,
     service |-> "Concrete & Foundation"],
    [keyword |-> <<"c", "u", "s", "t", "o", "m", " ", "c", "a", "b", "i", "n", "e", "t", "r", "y">>,
     service |-> "Cabinets & Millwork"],
    [keyword |-> <<"t", "o", "t", "a", "l", " ", "h", "o", "m", "e", " ", "i", "n", "s", "u", "l", "a", "t", "i", "o", "n">>,
     service |-> "Insulation"],
    [keyword |-> <<"f", "l", "o", "r", "e", "s", " ", "t", "i", "l", "e", " ", "&", " ", "s", "t", "o", "n", "e">>,
     service |-> "Flooring & Tile"],
    [keyword |-> <<"w", "i", "n", "d", "o", "w", " ", "w", "o", "r", "l", "d">>,
     service |-> "Windows & Doors"]
>>

\* lines 155-157: the for loop over the table of categorize
RECURSIVE SheetsSubcontractorScan(_, _)
SheetsSubcontractorScan(name, k) ==
    IF k > Len(SHEETS_SUBCONTRACTOR_DATABASE) THEN "none"
    ELSE IF Contains(name, SHEETS_SUBCONTRACTOR_DATABASE[k].keyword)
         THEN SHEETS_SUBCONTRACTOR_DATABASE[k].service
         ELSE SheetsSubcontractorScan(name, k + 1)

\* a port of the classifier that forgot to lower-case the name
categorize_as_written(txn_name) ==
    LET name == txn_name
    IN  IF Contains(name, <<"q", "u", "i", "c", "k", "b", "o", "o", "k", "s">>)
           \/ Contains(name, <<"i", "n", "t", "u", "i", "t">>)
          THEN [category |-> "QuickBooks Bill Pay", project |-> "NEEDS REVIEW"]
        ELSE IF Contains(name, <<"z", "e", "l", "l", "e">>)
          THEN [category |-> "Zelle Payment", project |-> "Bellevue"]
        ELSE IF SheetsSubcontractorScan(name, 1) # "none"
          THEN [category |-> SheetsSubcontractorScan(name, 1), project |-> "Bellevue"]
        ELSE [category |-> "Uncategorized", project |-> "Unknown"]

\* categorize(txn) of finance_tracker_sheets.py; txn_name as for
\* categorize_transaction
categorize(txn_name) ==
    LET name == Lower(txn_name)
    IN  IF Contains(name, <<"q", "u", "i", "c", "k", "b", "o", "o", "k", "s">>)
           \/ Contains(name, <<"i", "n", "t", "u", "i", "t">>)
          THEN [category |-> "QuickBooks Bill Pay", project |-> "NEEDS REVIEW"]
        ELSE IF Contains(name, <<"z", "e", "l", "l", "e">>)
          THEN [category |-> "Zelle Payment", project |-> "Bellevue"]
        ELSE IF Contains(name, <<"c", "h", "e", "c", "k", " ", "#">>)
          THEN [category |-> "Subcontractor Payout", project |-> "Bellevue"]
        ELSE IF SheetsSubcontractorScan(name, 1) # "none"
          THEN [category |-> SheetsSubcontractorScan(name, 1), project |-> "Bellevue"]
        ELSE IF \E vendor \in {<<"h", "o", "m", "e", " ", "d", "e", "p", "o", "t">>,
                                <<"l", "o", "w", "e", "'", "s">>,
                                <<"s", "h", "e", "r", "w", "i", "n", "-", "w", "i", "l", "l", "i", "a", "m", "s">>} :
                   Contains(name, vendor)
          THEN [category |-> "Materials", project |-> "Bellevue"]
        ELSE IF \E vendor \in {<<"s", "u", "n", "b", "e", "l", "t">>,
                                <<"u", "n", "i", "t", "e", "d", " ", "r", "e", "n", "t", "a", "l", "s">>} :
                   Contains(name, vendor)
          THEN [category |-> "Equipment Rental", project |-> "Bellevue"]
        ELSE IF \E vendor \in {<<"c", "h", "e", "v", "r", "o", "n">>,
                                <<"s", "h", "e", "l", "l">>,
                                <<"7", "6">>} :
                   Contains(name, vendor)
          THEN [category |-> "Fuel", project |-> "Admin"]
        ELSE [category |-> "Uncategorized", project |-> "Unknown"]

(***************************************************************************)
(* Descriptions given to the classifier: words of every rule, in mixed     *)
(* case, and one that no rule knows, joined by spaces.                     *)
(***************************************************************************)
Words == <<
    <<"Q", "u", "i", "c", "k", "B", "o", "o", "k", "s">>,
    <<"I", "N", "T", "U", "I", "T">>,
    <<"Z", "e", "l", "l", "e">>,
    <<"C", "H", "E", "C", "K", " ", "#">>,
    <<"A", "l", "l", "-", "P", "r", "o", " ", "P", "l", "u", "m", "b", "i", "n", "g">>,
    <<"w", "i", "n", "d", "o", "w", " ", "w", "o", "r", "l", "d">>,
    <<"H", "o", "m", "e", " ", "D", "e", "p", "o", "t">>,
    <<"S", "u", "n", "b", "e", "l", "t">>,
    <<"S", "H", "E", "L", "L">>,
    <<"7", "6">>,
    <<"c", "o", "f", "f", "e", "e">>,
    <<"S", "a", "l", "'", "s", " ", "D", "r", "y", "w", "a", "l", "l">>,
    <<"A", "-", "1", " ", "P", "a", "i", "n", "t", "i", "n", "g">>
>>

RECURSIVE Join(_)
Join(ws) == IF ws = <<>> THEN <<>>
            ELSE IF Len(ws) = 1 THEN Words[ws[1]]
            ELSE Words[ws[1]] \o <<" ">> \o Join(Tail(ws))

Descriptions ==
    {Join(ws) : ws \in UNION {[1..n -> 1..Len(Words)] : n \in 0..MaxWords}}

(***************************************************************************)
(* The provider's transactions.  A transaction id names one transaction    *)
(* of one credential; its other fields never change.                       *)
(***************************************************************************)
TxnIds == {"t1", "t2", "t3"}

Txn(id) ==
    CASE id = "t1" -> [transaction_id |-> "t1", cred |-> "tokA", date |-> <<2024, 1, 5>>,
                       name |-> <<"Z", "E", "L", "L", "E">>, amount |-> "25.0"]
      [] id = "t2" -> [transaction_id |-> "t2", cred |-> "tokA", date |-> <<2024, 1, 5>>,
                       name |-> <<"7", "6">>, amount |-> "40.5"]
      [] OTHER     -> [transaction_id |-> "t3", cred |-> "tokB", date |-> <<2023, 12, 31>>,
                       name |-> <<>>, amount |-> "-3.0"]

\* zero-padded decimal of n, at least width digits
RECURSIVE Pad(_, _)
Pad(n, width) == IF Len(Str(n)) >= width THEN Str(n)
                 ELSE <<"0">> \o Pad(n, width - 1)

\* date.isoformat(): YYYY-MM-DD
IsoFormat(d) == Pad(d[1], 4) \o <<"-">> \o Pad(d[2], 2) \o <<"-">> \o Pad(d[3], 2)

(***************************************************************************)
(* Ledger rows.  A row is the tuple of its six cells.                      *)
(***************************************************************************)
HeaderRow == <<"transaction_id", <<"d", "a", "t", "e">>, <<"n", "a", "m", "e">>,
               "amount", "category", "project">>

\* row = [t.transaction_id, t.date.isoformat(), t.name, t.amount, category, project]
RowOf(t) ==
    LET tags == categorize_transaction(t.name)
    IN  <<t.transaction_id, IsoFormat(t.date), t.name, t.amount,
          tags.category, tags.project>>

\* the row of each of the provider's transactions
RowTable == [id \in TxnIds |-> RowOf(Txn(id))]
Row(id) == RowTable[id]

\* get_existing_transaction_ids on a readable sheet: column A below the first row
ExistingIds(rows) == {rows[i][1] : i \in 2..Len(rows)}

\* the for loop building account_new_transactions
RECURSIVE NewTransactions(_, _)
NewTransactions(transactions, sheet_existing_ids) ==
    IF transactions = <<>> THEN <<>>
    ELSE IF Head(transactions) \notin sheet_existing_ids
         THEN <<Row(Head(transactions))>>
              \o NewTransactions(Tail(transactions), sheet_existing_ids)
         ELSE NewTransactions(Tail(transactions), sheet_existing_ids)


(***************************************************************************)
(* State.                                                                  *)
(***************************************************************************)
VARIABLES
    now,        \* the clock, in seconds
    file,       \* _bank_accounts.json
    legacy,     \* _access_token.json: "absent" or "valid"
    backups,    \* the clock seconds of the _access_token_backup_* files
    mgr,        \* accounts of the BankAccountManager of manage_accounts.py
    sheets,     \* the spreadsheet: sheet title -> rows
    upstream,   \* the provider: credential -> the transactions a fetch returns
    syncPc,     \* sync.py main: "idle" or "loop" (inside the for loop)
    syncAccts,  \* accounts of the BankAccountManager of the running sync
    syncIdx,    \* position of the for loop in get_all_access_tokens()
    \* history variables, read by the properties only
    last,       \* the loop iteration that just ended, if the last step was one
    runLog,     \* fetch outcome of each iteration of the current run
    runClean,   \* no call of the current run failed and nothing else wrote
    calm,       \* the previous run completed clean and nothing changed since
    lastReg,    \* the last add_account that succeeded
    everIds,    \* every account_id add_account has assigned
    lastOp,     \* the registry operation the last step called, if it was one
    classified, \* the last transaction given to categorize_transaction
    kill        \* "killed": a sync was killed and nothing changed since;
                \* "rerun": the run that follows it is in its loop;
                \* "recovered": that run completed with no failed call

vars == <<now, file, legacy, backups, mgr, sheets, upstream, syncPc, syncAccts,
          syncIdx, last, runLog, runClean, calm, lastReg, everIds, lastOp,
          classified, kill>>

UnknownId == <<0, 0>>

NoPass == [valid |-> FALSE, id |-> UnknownId, sheet |-> <<>>, idx |-> 0, n |-> 0,
           ensure |-> "none", readOk |-> FALSE, fetchOk |-> FALSE, fetched |-> <<>>,
           before |-> <<>>, pending |-> <<>>, appendOk |-> FALSE, save |-> "none",
           lsBefore |-> None, at |-> 0, clean |-> FALSE, calm |-> FALSE]

NoReg == [valid |-> FALSE, id |-> UnknownId, clean |-> <<>>, existing |-> {},
          sheet |-> <<>>, reused |-> FALSE, replaced |-> FALSE]

NoOp == [op |-> "none", id |-> UnknownId, token |-> "", name |-> <<>>,
         providerOk |-> FALSE, save |-> "none", rename |-> FALSE, ret |-> FALSE,
         legacy |-> "absent"]

\* lastOp in the specifications that do not record the calls
OpsOff == [NoOp EXCEPT !.op = "off"]

NoClassified == [valid |-> FALSE, has_name |-> FALSE, name |-> <<>>,
                 tags |-> [category |-> "", project |-> ""],
                 sheets_tags |-> [category |-> "", project |-> ""]]

\* nothing registered, an empty spreadsheet; leg: whether the installation still
\* has the token file of the single-account scripts
InitState(leg, op) ==
    /\ now = 1
    /\ file = EmptyFile
    /\ legacy = leg
    /\ backups = {}
    /\ mgr = <<>>
    /\ sheets = [t \in {} |-> <<>>]
    /\ upstream = [c \in ValidCredentials |-> <<>>]
    /\ syncPc = "idle"
    /\ syncAccts = <<>>
    /\ syncIdx = 0
    /\ last = NoPass
    /\ runLog = <<>>
    /\ runClean = FALSE
    /\ calm = FALSE
    /\ lastReg = NoReg
    /\ everIds = {}
    /\ lastOp = op
    /\ classified = NoClassified
    /\ kill = "none"

InitWith(leg) == InitState(leg, OpsOff)

Init == InitWith("absent")

InitLegacy == \E leg \in {"absent", "valid"} : InitWith(leg)

\* _access_token.json as migrate_legacy_token may find it: not there, holding a
\* credential, not parsable, or parsable without an access_token
LegacyStates == {"absent", "valid", "unreadable", "notoken"}

\* as Init, with any legacy file and the calls recorded
InitOps == \E leg \in LegacyStates : InitState(leg, NoOp)

\* what the properties remember of a call of a registry operation: its
\* arguments (id: the account_id given, or the one add_account assigned), what
\* the environment answered, what the call returned, and the legacy file as the
\* call found it
OpRecord(op, id, token, name, providerOk, save, rename, ret) ==
    [op |-> op, id |-> id, token |-> token, name |-> name,
     providerOk |-> providerOk, save |-> save, rename |-> rename, ret |-> ret,
     legacy |-> legacy]

\* lastOp after a step: rec, where the calls are recorded
Note(rec) == IF lastOp.op = "off" THEN lastOp ELSE rec

\* what the properties remember of an add_account that succeeded on accts
RegRecord(accts, access_token, account_name, t, ever) ==
    [valid    |-> TRUE,
     id       |-> AccountId(accts, t),
     clean    |-> CleanName(Institution(access_token), account_name),
     existing |-> SheetNames(accts),
     sheet    |-> AccountData(accts, access_token, account_name, t).sheet_name,
     reused   |-> AccountId(accts, t) \in ever,
     replaced |-> AccountId(accts, t) \in Ids(accts)]

(***************************************************************************)
(* The clock and the provider.                                             *)
(***************************************************************************)
Tick ==
    /\ UNCHANGED kill
    /\ now < MaxClock
    /\ now' = now + 1
    /\ UNCHANGED <<file, legacy, backups, mgr, sheets, upstream, syncPc, syncAccts,
                   syncIdx, last, runLog, runClean, calm, lastReg, everIds>>
    /\ lastOp' = Note(NoOp)
    /\ UNCHANGED classified

\* the provider records one more transaction for its credential
Arrive(id, maxBatch) ==
    /\ kill' = "none"
    /\ Len(upstream[Txn(id).cred]) < maxBatch
    /\ upstream' = [upstream EXCEPT ![Txn(id).cred] = Append(@, id)]
    /\ last' = NoPass
    /\ runClean' = FALSE
    /\ calm' = FALSE
    /\ UNCHANGED <<now, file, legacy, backups, mgr, sheets, syncPc, syncAccts,
                   syncIdx, runLog, lastReg, everIds>>
    /\ lastOp' = Note(NoOp)
    /\ UNCHANGED classified

(***************************************************************************)
(* manage_accounts.py: a BankAccountManager that lives as long as the menu.*)
(***************************************************************************)
\* BankAccountManager.__init__: the menu is started again
MgrStart ==
    /\ UNCHANGED kill
    /\ mgr' = LoadAccounts(file)
    /\ UNCHANGED <<now, file, legacy, backups, sheets, upstream, syncPc, syncAccts,
                   syncIdx, last, runLog, runClean, calm, lastReg, everIds>>
    /\ lastOp' = Note(NoOp)
    /\ UNCHANGED classified

\* BankAccountManager.__init__ when open or json.load raises on a registry file
\* that is there (it cannot be opened, or is read while another process is
\* writing it): _load_accounts prints the error and returns {}
MgrStartLoadFails ==
    /\ UNCHANGED kill
    /\ mgr' = <<>>
    /\ UNCHANGED <<now, file, legacy, backups, sheets, upstream, syncPc, syncAccts,
                   syncIdx, last, runLog, runClean, calm, lastReg, everIds>>
    /\ lastOp' = Note(NoOp)
    /\ UNCHANGED classified

\* a provider whose answer add_account does not wait for
AcceptedUnasked(access_token, providerOk) == TRUE

\* lines 46-51: accounts_get and item_get raise unless the provider answers and
\* knows the credential
Accepted(access_token, providerOk) == providerOk /\ access_token \in ValidCredentials

\* add_account(access_token, account_name); providerOk: accounts_get and item_get
\* answer; cap bounds the registry
Register(access_token, account_name, providerOk, saveOutcome, cap) ==
    /\ kill' = "none"
    /\ Len(mgr) < cap
    /\ lastOp' = Note(IF Accepted(access_token, providerOk)
                      THEN OpRecord("register", AccountId(mgr, now), access_token,
                                    account_name, providerOk, saveOutcome, FALSE, TRUE)
                      ELSE OpRecord("register", UnknownId, access_token,
                                    account_name, providerOk, "none", FALSE, FALSE))
    /\ UNCHANGED classified
    /\ IF Accepted(access_token, providerOk)
       THEN /\ mgr' = AddAccount(mgr, access_token, account_name, now)
            /\ file' = SaveAccounts(file, mgr', saveOutcome)
            /\ lastReg' = RegRecord(mgr, access_token, account_name, now, everIds)
            /\ everIds' = everIds \cup {AccountId(mgr, now)}
       ELSE UNCHANGED <<mgr, file, lastReg, everIds>>
    /\ last' = NoPass
    /\ runClean' = FALSE
    /\ calm' = FALSE
    /\ UNCHANGED <<now, legacy, backups, sheets, upstream, syncPc, syncAccts,
                   syncIdx, runLog>>

\* remove_account(account_id)
Deregister(account_id, saveOutcome) ==
    /\ kill' = "none"
    /\ lastOp' = Note(OpRecord("deregister", account_id, "", NoName, TRUE,
                               IF account_id \in Ids(mgr) THEN saveOutcome ELSE "none",
                               FALSE, account_id \in Ids(mgr)))
    /\ UNCHANGED classified
    /\ IF account_id \in Ids(mgr)
       THEN /\ mgr' = Remove(mgr, account_id)
            /\ file' = SaveAccounts(file, mgr', saveOutcome)
       ELSE UNCHANGED <<mgr, file>>
    /\ last' = NoPass
    /\ runClean' = FALSE
    /\ calm' = FALSE
    /\ UNCHANGED <<now, legacy, backups, sheets, upstream, syncPc, syncAccts,
                   syncIdx, runLog, lastReg, everIds>>

\* update_last_sync(account_id), called on the menu's manager
UpdateLastSync(account_id, saveOutcome) ==
    /\ kill' = "none"
    /\ lastOp' = Note(OpRecord("mark", account_id, "", NoName, TRUE,
                               IF account_id \in Ids(mgr) THEN saveOutcome ELSE "none",
                               FALSE, FALSE))
    /\ IF account_id \in Ids(mgr)
       THEN /\ mgr' = SetLastSync(mgr, account_id, now)
            /\ file' = SaveAccounts(file, mgr', saveOutcome)
       ELSE UNCHANGED <<mgr, file>>
    /\ last' = NoPass
    /\ runClean' = FALSE
    /\ calm' = FALSE
    /\ UNCHANGED <<now, legacy, backups, sheets, upstream, syncPc, syncAccts,
                   syncIdx, runLog, lastReg, everIds, classified>>

\* tags = categorize_transaction(t) in sync.py and tags = categorize(t) in
\* finance_tracker_sheets.py, for a transaction t with the name given, or with
\* no name (t.name is None); one transaction is followed
Categorize(has_name, txn_name) ==
    /\ UNCHANGED kill
    /\ ~classified.valid
    /\ classified' = [valid    |-> TRUE,
                      has_name |-> has_name,
                      name     |-> txn_name,
                      tags     |-> categorize_transaction(
                                      IF has_name THEN txn_name ELSE <<>>),
                      sheets_tags |-> categorize(IF has_name THEN txn_name ELSE <<>>)]
    /\ UNCHANGED <<now, file, legacy, backups, mgr, sheets, upstream, syncPc,
                   syncAccts, syncIdx, last, runLog, runClean, calm, lastReg,
                   everIds, lastOp>>

\* migrate_legacy_token on a manager holding accts: what it leaves and returns.
\* renameOk: os.rename of the legacy file succeeds.
Migration(accts, f, leg, bk, t, providerOk, saveOutcome, renameOk) ==
    IF leg # "valid" \/ ~providerOk
    THEN [accts |-> accts, file |-> f, legacy |-> leg, backups |-> bk,
          added |-> FALSE, ret |-> FALSE]
    ELSE LET new == AddAccount(accts, LegacyToken, LegacyName, t)
         IN  [accts   |-> new,
              file    |-> SaveAccounts(f, new, saveOutcome),
              legacy  |-> IF renameOk THEN "absent" ELSE leg,
              backups |-> IF renameOk THEN bk \cup {t} ELSE bk,
              added   |-> TRUE,
              ret     |-> renameOk]

\* menu entry 5
Migrate(providerOk, saveOutcome, renameOk, cap) ==
    /\ kill' = "none"
    /\ Len(mgr) < cap
    /\ LET m == Migration(mgr, file, legacy, backups, now, providerOk, saveOutcome, renameOk)
       IN  /\ mgr' = m.accts
           /\ file' = m.file
           /\ legacy' = m.legacy
           /\ backups' = m.backups
           /\ IF m.added
              THEN /\ lastReg' = RegRecord(mgr, LegacyToken, LegacyName, now, everIds)
                   /\ everIds' = everIds \cup {AccountId(mgr, now)}
              ELSE UNCHANGED <<lastReg, everIds>>
           /\ lastOp' = Note(OpRecord("migrate",
                                 IF m.added THEN AccountId(mgr, now) ELSE UnknownId,
                                 LegacyToken, LegacyName, providerOk,
                                 IF m.added THEN saveOutcome ELSE "none",
                                 renameOk, m.ret))
    /\ UNCHANGED classified
    /\ last' = NoPass
    /\ runClean' = FALSE
    /\ calm' = FALSE
    /\ UNCHANGED <<now, sheets, upstream, syncPc, syncAccts, syncIdx, runLog>>


(***************************************************************************)
(* The spreadsheet backend, as sync.py and setup.py call it.               *)
(***************************************************************************)
EnsureOutcomes == {"ok", "getfail", "addfail", "hdrfail"}

\* create_sheet_if_not_exists: spreadsheets().get, then addSheet, then the header
\* update; the first call that fails ends it (the exception is swallowed)
EnsureSheet(sh, sheet_name, outcome) ==
    IF outcome = "getfail" \/ sheet_name \in DOMAIN sh \/ outcome = "addfail"
    THEN sh
    ELSE [t \in DOMAIN sh \cup {sheet_name} |->
            IF t = sheet_name
            THEN (IF outcome = "hdrfail" THEN <<>> ELSE <<HeaderRow>>)
            ELSE sh[t]]

\* what create_sheet_if_not_exists did
EnsureResult(sh, sheet_name, outcome) ==
    IF outcome = "getfail" THEN "getfail"
    ELSE IF sheet_name \in DOMAIN sh THEN "exists"
    ELSE IF outcome = "addfail" THEN "addfail"
    ELSE IF outcome = "hdrfail" THEN "hdrfail"
    ELSE "created"

\* values().update of A1:F1 with the header: row 1 is written, whatever it held
WriteHeader(rows) ==
    IF rows = <<>> THEN <<HeaderRow>>
    ELSE [i \in 1..Len(rows) |-> IF i = 1 THEN HeaderRow ELSE rows[i]]

\* an append that inserts the rows below the first row of the sheet
InsertBelowFirstRow(rows, transactions_data) ==
    IF rows = <<>> THEN transactions_data
    ELSE <<rows[1]>> \o transactions_data \o Tail(rows)

\* values().append: the rows go below the last row of the sheet
AppendRows(rows, transactions_data) == rows \o transactions_data

(***************************************************************************)
(* sync.py main.                                                           *)
(***************************************************************************)
\* lines 250-283: load_bank_accounts (with the legacy migration when the
\* registry is empty), then get_google_sheets_service
SyncStart(providerOk, saveOutcome, renameOk, serviceOk) ==
    /\ syncPc = "idle"
    /\ LET loaded == LoadAccounts(file)
           m == IF loaded = <<>>
                THEN Migration(loaded, file, legacy, backups, now,
                               providerOk, saveOutcome, renameOk)
                ELSE [accts |-> loaded, file |-> file, legacy |-> legacy,
                      backups |-> backups, added |-> FALSE, ret |-> TRUE]
       IN  /\ file' = m.file
           /\ legacy' = m.legacy
           /\ backups' = m.backups
           /\ IF m.added
              THEN /\ lastReg' = RegRecord(loaded, LegacyToken, LegacyName, now, everIds)
                   /\ everIds' = everIds \cup {AccountId(loaded, now)}
                   /\ calm' = FALSE
              ELSE UNCHANGED <<lastReg, everIds, calm>>
           /\ IF m.ret /\ serviceOk
              THEN /\ syncPc' = "loop"
                   /\ syncAccts' = m.accts
                   /\ syncIdx' = 1
                   /\ runLog' = <<>>
                   /\ runClean' = (~m.added \/ saveOutcome = "ok")
              ELSE UNCHANGED <<syncPc, syncAccts, syncIdx, runLog, runClean>>
           /\ kill' = IF kill = "killed" /\ ~m.added
                      THEN (IF m.ret /\ serviceOk THEN "rerun" ELSE "killed")
                      ELSE "none"
           /\ lastOp' = Note(IF loaded = <<>>
                        THEN OpRecord("migrate",
                                      IF m.added THEN AccountId(loaded, now) ELSE UnknownId,
                                      LegacyToken, LegacyName, providerOk,
                                      IF m.added THEN saveOutcome ELSE "none",
                                      renameOk, m.ret)
                        ELSE NoOp)
    /\ UNCHANGED classified
    /\ last' = NoPass
    /\ UNCHANGED <<now, mgr, sheets, upstream>>

\* a for loop that a failed fetch ends
LoopEndsOnFailure(fetchOk, idx, n) == IF fetchOk /\ idx < n THEN idx + 1 ELSE 0

\* where the for loop stands after an iteration at idx of n accounts: a failed
\* fetch is caught and the loop continues; 0: the loop is over
LoopAfter(fetchOk, idx, n) == IF idx < n THEN idx + 1 ELSE 0

\* lines 285-334: one iteration of the for loop, for the account at syncIdx.
\* readOk, fetchOk, appendOk: the call succeeds, when it is made; maxRows bounds
\* the sheet.
SyncPass(ensureOutcome, readOk, fetchOk, appendOk, saveOutcome, maxRows) ==
    /\ syncPc = "loop"
    /\ syncIdx <= Len(syncAccts)
    /\ LET account_data == syncAccts[syncIdx]
           sheet_name   == account_data.sheet_name
           before       == IF sheet_name \in DOMAIN sheets THEN sheets[sheet_name] ELSE <<>>
           sheets1      == EnsureSheet(sheets, sheet_name, ensureOutcome)
           exists       == sheet_name \in DOMAIN sheets1
           \* get_existing_transaction_ids: a failed read gives the empty set
           didRead      == readOk /\ exists
           sheet_existing_ids == IF didRead THEN ExistingIds(sheets1[sheet_name]) ELSE {}
           transactions == upstream[account_data.access_token]
           account_new_transactions ==
               IF fetchOk THEN NewTransactions(transactions, sheet_existing_ids) ELSE <<>>
           tried        == account_new_transactions # <<>>
           \* append_transactions_to_sheet: a failed append is swallowed
           didAppend    == tried /\ appendOk /\ exists
           sheets2      == IF didAppend
                           THEN [sheets1 EXCEPT ![sheet_name] =
                                    AppendRows(@, account_new_transactions)]
                           ELSE sheets1
           \* update_last_sync follows the append, whatever became of it
           accts2       == IF tried THEN SetLastSync(syncAccts, account_data.id, now)
                           ELSE syncAccts
           clean        == /\ EnsureResult(sheets, sheet_name, ensureOutcome)
                                  \in {"exists", "created"}
                           /\ didRead
                           /\ fetchOk
                           /\ tried => (didAppend /\ saveOutcome = "ok")
       IN  /\ Len(before) + Len(account_new_transactions) <= maxRows
           /\ sheets' = sheets2
           /\ syncAccts' = accts2
           /\ file' = IF tried THEN SaveAccounts(file, accts2, saveOutcome) ELSE file
           /\ last' = [valid    |-> TRUE,
                       id       |-> account_data.id,
                       sheet    |-> sheet_name,
                       idx      |-> syncIdx,
                       n        |-> Len(syncAccts),
                       ensure   |-> EnsureResult(sheets, sheet_name, ensureOutcome),
                       readOk   |-> didRead,
                       fetchOk  |-> fetchOk,
                       fetched  |-> IF fetchOk THEN transactions ELSE <<>>,
                       before   |-> before,
                       pending  |-> account_new_transactions,
                       appendOk |-> didAppend,
                       save     |-> IF tried THEN saveOutcome ELSE "none",
                       lsBefore |-> account_data.last_sync,
                       at       |-> now,
                       clean    |-> clean,
                       calm     |-> calm]
           /\ runLog' = Append(runLog, IF fetchOk THEN "ok" ELSE "fetchfail")
           /\ runClean' = (runClean /\ clean)
           /\ calm' = IF syncIdx = Len(syncAccts) THEN (runClean /\ clean) ELSE calm
           \* the loop goes on to the next account; after the last one main returns
           /\ syncIdx' = LoopAfter(fetchOk, syncIdx, Len(syncAccts))
           /\ syncPc' = IF syncIdx' = 0 THEN "idle" ELSE "loop"
           /\ kill' = IF syncIdx' # 0 THEN kill
                      ELSE IF kill = "rerun" /\ runClean /\ clean THEN "recovered"
                      ELSE "none"
    /\ UNCHANGED <<now, legacy, backups, mgr, upstream, lastReg, everIds>>
    /\ lastOp' = Note(NoOp)
    /\ UNCHANGED classified

\* where a kill of the process finds the iteration of lines 285-334: "between"
\* two iterations; "created", after addSheet and before the update that writes
\* the header (lines 194-206); "appended", after the append and before
\* update_last_sync (lines 317-328); "saving", inside _save_accounts, after
\* open(..., 'w') and before the end of json.dump
KillPoints == {"between", "created", "appended", "saving"}

\* the process of sync.py is killed in the iteration for the account at syncIdx
SyncKilled(point, maxRows) ==
    /\ syncPc = "loop"
    /\ syncIdx <= Len(syncAccts)
    /\ LET account_data == syncAccts[syncIdx]
           sheet_name   == account_data.sheet_name
           before       == IF sheet_name \in DOMAIN sheets THEN sheets[sheet_name] ELSE <<>>
           sheets1      == IF point = "between" THEN sheets
                           ELSE IF point = "created"
                           THEN EnsureSheet(sheets, sheet_name, "hdrfail")
                           ELSE EnsureSheet(sheets, sheet_name, "ok")
           sheet_existing_ids ==
               IF sheet_name \in DOMAIN sheets1
               THEN ExistingIds(sheets1[sheet_name]) ELSE {}
           account_new_transactions ==
               NewTransactions(upstream[account_data.access_token], sheet_existing_ids)
           accts2       == IF point = "saving"
                           THEN SetLastSync(syncAccts, account_data.id, now)
                           ELSE syncAccts
       IN  /\ point = "created" => sheet_name \notin DOMAIN sheets
           /\ point \in {"appended", "saving"} => account_new_transactions # <<>>
           /\ Len(before) + Len(account_new_transactions) <= maxRows
           /\ sheets' = IF point \in {"appended", "saving"}
                        THEN [sheets1 EXCEPT ![sheet_name] =
                                 AppendRows(@, account_new_transactions)]
                        ELSE sheets1
           /\ syncAccts' = accts2
           /\ file' = IF point = "saving" THEN SaveAccounts(file, accts2, "torn") ELSE file
    /\ syncPc' = "idle"
    /\ syncIdx' = 0
    /\ kill' = "killed"
    /\ last' = NoPass
    /\ runClean' = FALSE
    /\ calm' = FALSE
    /\ lastOp' = Note(NoOp)
    /\ UNCHANGED <<now, legacy, backups, mgr, upstream, runLog, lastReg, everIds,
                   classified>>

(***************************************************************************)
(* setup.py setup_sheet_headers.                                           *)
(***************************************************************************)
HeaderOutcomes == {"ok", "readfail", "writefail"}

\* the for loop over bank_manager.accounts, from account i on; outcome[i] is
\* what becomes of the calls made for account i
RECURSIVE HeadersLoop(_, _, _, _)
HeadersLoop(sh, accts, outcome, i) ==
    IF i > Len(accts) THEN sh
    ELSE LET sheet_name == accts[i].sheet_name
             readable   == sheet_name \in DOMAIN sh /\ outcome[i] # "readfail"
             wrong      == readable /\ (sh[sheet_name] = <<>> \/ sh[sheet_name][1] # HeaderRow)
         IN  IF wrong /\ outcome[i] = "ok"
             THEN HeadersLoop([sh EXCEPT ![sheet_name] = WriteHeader(@)], accts, outcome, i + 1)
             ELSE HeadersLoop(sh, accts, outcome, i + 1)

SetupSheetHeaders(outcome) ==
    /\ kill' = "none"
    /\ sheets' = HeadersLoop(sheets, LoadAccounts(file), outcome, 1)
    /\ last' = NoPass
    /\ runClean' = FALSE
    /\ calm' = FALSE
    /\ UNCHANGED <<now, file, legacy, backups, mgr, upstream, syncPc, syncAccts,
                   syncIdx, runLog, lastReg, everIds>>
    /\ lastOp' = Note(NoOp)
    /\ UNCHANGED classified

(***************************************************************************)
(* Specifications.                                                         *)
(***************************************************************************)
RegNames == {NoName, Chase1, ChaseBang}

\* Spec: one account and its ledger, with the account manager, the sync and the
\* header setup as separate processes, a clock, and every call to the
\* spreadsheet and the provider free to fail
Next ==
    \/ Tick
    \/ \E id \in {"t1", "t2"} : Arrive(id, MaxBatch)
    \/ MgrStart
    \/ \E ok \in BOOLEAN : Register("tokA", NoName, ok, "ok", MaxAccounts)
    \/ \E id \in Ids(mgr) \cup {UnknownId} : Deregister(id, "ok")
    \/ \E ok \in BOOLEAN, ro \in BOOLEAN, svc \in BOOLEAN : SyncStart(ok, "ok", ro, svc)
    \/ \E eo \in EnsureOutcomes, ro \in BOOLEAN, fo \in BOOLEAN, ao \in BOOLEAN :
          SyncPass(eo, ro, fo, ao, "ok", MaxRows)
    \/ \E o \in [1..Len(LoadAccounts(file)) -> HeaderOutcomes] : SetupSheetHeaders(o)

Spec == Init /\ [][Next]_vars

\* SpecRegistry: the account manager alone, within one clock second (where the
\* account ids collide most) and with a disk that works
NextRegistry ==
    \/ MgrStart
    \/ \E c \in {"tokA", "tokBad"}, nm \in RegNames, ok \in BOOLEAN :
          Register(c, nm, ok, "ok", MaxRegAccounts)
    \/ \E id \in Ids(mgr) \cup {UnknownId} : Deregister(id, "ok")
    \/ \E ok \in BOOLEAN, ro \in BOOLEAN : Migrate(ok, "ok", ro, MaxRegAccounts)

SpecRegistry == InitLegacy /\ [][NextRegistry]_vars

\* SpecSweep: the sync over several accounts of two credentials, where a read
\* of the ledger, a fetch and an append may fail
NextSweep ==
    \/ \E id \in {"t1", "t3"} : Arrive(id, SweepBatch)
    \/ \E c \in ValidCredentials, ok \in BOOLEAN :
          Register(c, NoName, ok, "ok", SweepAccounts)
    \/ \E svc \in BOOLEAN : SyncStart(TRUE, "ok", TRUE, svc)
    \/ \E ro \in BOOLEAN, fo \in BOOLEAN, ao \in BOOLEAN :
          SyncPass("ok", ro, fo, ao, "ok", SweepRows)

SpecSweep == Init /\ [][NextSweep]_vars

\* SpecOps: the operations of the registry with every outcome of the provider,
\* of the save and of the rename, each call recorded; the sync takes part as
\* far as load_bank_accounts (it finds no spreadsheet service and returns)
NextOps ==
    \/ MgrStart
    \/ \E ok \in BOOLEAN, so \in SaveOutcomes : Register("tokA", NoName, ok, so, OpsAccounts)
    \/ \E id \in Ids(mgr), so \in SaveOutcomes : Deregister(id, so)
    \/ \E ok \in BOOLEAN, so \in SaveOutcomes, ro \in BOOLEAN :
          Migrate(ok, so, ro, OpsAccounts)
    \/ \E ok \in BOOLEAN, so \in SaveOutcomes, ro \in BOOLEAN :
          SyncStart(ok, so, ro, FALSE)

SpecOps == InitOps /\ [][NextOps]_vars

\* SpecCalls: add_account, remove_account and update_last_sync on one manager,
\* each call recorded, with a provider that may reject and a disk that may fail
\* under remove_account and update_last_sync
InitCalls == InitState("absent", NoOp)

NextCalls ==
    \/ \E c \in {"tokA", "tokBad"}, nm \in {NoName, Chase}, ok \in BOOLEAN :
          Register(c, nm, ok, "ok", CallAccounts)
    \/ \E id \in Ids(mgr) \cup {UnknownId}, so \in SaveOutcomes : Deregister(id, so)
    \/ \E id \in Ids(mgr) \cup {UnknownId}, so \in SaveOutcomes : UpdateLastSync(id, so)

SpecCalls == InitCalls /\ [][NextCalls]_vars

\* SpecClassify: the classifier applied to a transaction of any description
NextClassify ==
    \/ \E d \in Descriptions : Categorize(TRUE, d)
    \/ Categorize(FALSE, <<>>)

SpecClassify == Init /\ [][NextClassify]_vars

\* SpecKill: the sync of one account, killed at any of its kill points and run
\* again, with a provider and a spreadsheet that answer every call
NextKill ==
    \/ \E ok \in BOOLEAN : Register("tokA", NoName, ok, "ok", MaxAccounts)
    \/ \E id \in {"t1", "t2"} : Arrive(id, KillBatch)
    \/ SyncStart(TRUE, "ok", TRUE, TRUE)
    \/ SyncPass("ok", TRUE, TRUE, TRUE, "ok", KillRows)
    \/ \E pt \in KillPoints : SyncKilled(pt, KillRows)

SpecKill == Init /\ [][NextKill]_vars

\* SpecNames: accounts added under names of the greatest length and removed
NextNames ==
    \/ \E nm \in {NoName, LongName, TooLongName}, ok \in BOOLEAN :
          Register("tokA", nm, ok, "ok", NameAccounts)
    \/ \E id \in Ids(mgr) : Deregister(id, "ok")

SpecNames == Init /\ [][NextNames]_vars

\* SpecOrder: the sync of the accounts of one credential whose provider returns
\* several transactions, where the read of the ledger and the append may fail
NextOrder ==
    \/ Register("tokA", NoName, TRUE, "ok", OrderAccounts)
    \/ \E id \in {"t1", "t2"} : Arrive(id, OrderBatch)
    \/ SyncStart(TRUE, "ok", TRUE, TRUE)
    \/ \E ro \in BOOLEAN, ao \in BOOLEAN : SyncPass("ok", ro, TRUE, ao, "ok", OrderRows)

SpecOrder == Init /\ [][NextOrder]_vars

\* SpecReload: the account manager started again and again, on a registry file
\* that it can read or not, each call recorded
NextReload ==
    \/ MgrStart
    \/ MgrStartLoadFails
    \/ \E ok \in BOOLEAN : Register("tokA", NoName, ok, "ok", ReloadAccounts)
    \/ \E id \in Ids(mgr) \cup {UnknownId} : Deregister(id, "ok")
    \/ \E id \in Ids(mgr) : UpdateLastSync(id, "ok")
    \/ \E ok \in BOOLEAN, ro \in BOOLEAN : Migrate(ok, "ok", ro, ReloadAccounts)

SpecReload == InitOps /\ [][NextReload]_vars

\* SpecReuse: accounts of two credentials added under one name and removed,
\* and synced in between
NextReuse ==
    \/ \E c \in ValidCredentials, ok \in BOOLEAN : Register(c, Chase, ok, "ok", ReuseAccounts)
    \/ \E id \in Ids(mgr) : Deregister(id, "ok")
    \/ \E id \in {"t1", "t3"} : Arrive(id, ReuseBatch)
    \/ SyncStart(TRUE, "ok", TRUE, TRUE)
    \/ SyncPass("ok", TRUE, TRUE, TRUE, "ok", ReuseRows)

SpecReuse == Init /\ [][NextReuse]_vars

(***************************************************************************)
(* Properties.                                                             *)
(***************************************************************************)
\* the transaction ids of the rows of a ledger, the header row apart
LedgerIds(rows) == {rows[i][1] : i \in {j \in 1..Len(rows) : rows[j] # HeaderRow}}

IsPrefix(s, r) == Len(s) <= Len(r) /\ SubSeq(r, 1, Len(s)) = s

LastSyncOf(accts, id) ==
    LET hits == {i \in 1..Len(accts) : accts[i].id = id}
    IN  IF hits = {} THEN None ELSE accts[CHOOSE i \in hits : TRUE].last_sync

\* the fetched ids that were not in the ledger before the pass, in fetch order
NewIds(fetched, before) ==
    SelectSeq(fetched, LAMBDA id : id \notin LedgerIds(before))

\* C1: no ledger contains two rows with the same transaction_id, whatever the
\* sync runs, the upstream data and the calls that failed.
C1_NoDuplicateIds ==
    \A s \in DOMAIN sheets : \A i, j \in 1..Len(sheets[s]) :
        (i # j /\ sheets[s][i] # HeaderRow /\ sheets[s][j] # HeaderRow)
            => sheets[s][i][1] # sheets[s][j][1]

\* C2: a run that follows a run which completed without any failed call, with
\* no new upstream transaction and no other operation in between, appends
\* nothing: each of its passes, when no call of it fails, leaves the ledger
\* with the rows it had.
C2_SecondRunAppendsNothing ==
    (last.valid /\ last.calm /\ last.clean)
        => (last.pending = <<>> /\ sheets[last.sheet] = last.before)

\* C3: after a pass in which every call succeeded, the ledger holds the rows it
\* had before the pass (the header, for a ledger the pass created) followed by
\* one row for each fetched transaction whose id was not in the ledger before
\* the pass, and no other row.
C3_AppendsExactlyNew ==
    (last.valid /\ last.clean)
        => sheets[last.sheet] =
              (IF last.ensure = "created" THEN <<HeaderRow>> ELSE last.before)
              \o [i \in 1..Len(NewIds(last.fetched, last.before)) |->
                     Row(NewIds(last.fetched, last.before)[i])]

\* C4: in a run over several accounts, a pass whose fetch fails leaves every
\* ledger and the registry as they were and the loop goes on to the next
\* account; and a pass whose fetch succeeds with new transactions and whose
\* append succeeds keeps the ledger's rows, appends a row for each new
\* transaction and sets the account's last_sync to the current time, in the
\* running registry and in the registry file, whether or not the fetch of an
\* account before it failed.
C4_FetchFailureIsolated ==
    [][ (last'.valid /\ last' # last) =>
          /\ ~last'.fetchOk =>
                /\ \A s \in DOMAIN sheets : s \in DOMAIN sheets' /\ sheets'[s] = sheets[s]
                /\ syncAccts' = syncAccts
                /\ file' = file
                /\ last'.idx < last'.n => (syncPc' = "loop" /\ syncIdx' = last'.idx + 1)
          /\ (last'.fetchOk /\ NewIds(last'.fetched, last'.before) # <<>> /\ last'.appendOk) =>
                /\ IsPrefix(last'.before, sheets'[last'.sheet])
                /\ \A k \in 1..Len(NewIds(last'.fetched, last'.before)) :
                      \E r \in Len(last'.before) + 1..Len(sheets'[last'.sheet]) :
                         sheets'[last'.sheet][r] = Row(NewIds(last'.fetched, last'.before)[k])
                /\ LastSyncOf(syncAccts', last'.id) = now
                /\ LastSyncOf(LoadAccounts(file'), last'.id) = now
                /\ \A s \in DOMAIN sheets \ {last'.sheet} : sheets'[s] = sheets[s]
      ]_vars

\* C4: the fetch of the first account failed, and the pass of the second account
\* then appended its new transaction and advanced its last_sync.
C4_Witness ==
    /\ last.valid /\ last.idx = 2 /\ runLog = <<"fetchfail", "ok">>
    /\ last.appendOk /\ NewIds(last.fetched, last.before) # <<>>
    /\ LastSyncOf(syncAccts, last.id) = last.at
    /\ LastSyncOf(syncAccts, syncAccts[1].id) = None

\* C5: a ledger is append-only: in every step the rows of every sheet are a
\* prefix of its rows after the step.
C5_AppendOnly ==
    [][ \A s \in DOMAIN sheets :
           s \in DOMAIN sheets' /\ IsPrefix(sheets[s], sheets'[s]) ]_vars

\* the sheet names of a registry are pairwise different
UniqueSheetNames(accts) ==
    \A i, j \in 1..Len(accts) : i # j => accts[i].sheet_name # accts[j].sheet_name

\* C6: no two accounts of the registry have the same sheet_name, in the
\* manager's memory and in the registry file.
C6_LedgerNamesUnique ==
    UniqueSheetNames(mgr) /\ UniqueSheetNames(LoadAccounts(file))

\* C6: three accounts are registered, and the last one was given a name other
\* than its sanitized base name because that one was taken.
C6_Witness ==
    /\ Len(mgr) = 3
    /\ lastReg.valid /\ lastReg.clean \in lastReg.existing
    /\ lastReg.sheet = mgr[3].sheet_name

Suffixed(name, n) == name \o <<" ">> \o Str(n)

\* C7: when the sanitized base name of a new account is the sheet_name of a
\* registered account, the account gets the base name, a space and the smallest
\* positive n for which that name is free; a second "Chase" gets "Chase 1".
C7_SmallestFreeCounter ==
    (lastReg.valid /\ lastReg.clean \in lastReg.existing) =>
        /\ \E n \in 1..Cardinality(lastReg.existing) + 1 :
              /\ lastReg.sheet = Suffixed(lastReg.clean, n)
              /\ lastReg.sheet \notin lastReg.existing
              /\ \A m \in 1..n - 1 : Suffixed(lastReg.clean, m) \in lastReg.existing
        /\ (lastReg.clean = Chase /\ lastReg.existing = {Chase}) => lastReg.sheet = Chase1

\* C7: "Chase" and "Chase 1" are taken and a third "Chase" is registered.
C7_Witness ==
    /\ lastReg.valid
    /\ lastReg.clean = Chase
    /\ lastReg.existing = {Chase, Chase1}
    /\ lastReg.sheet = Suffixed(Chase, 2)

\* C8: every add_account that succeeds assigns an account_id that no account
\* ever had, and replaces no record of the registry.
C8_FreshAccountId ==
    lastReg.valid => (~lastReg.reused /\ ~lastReg.replaced)

\* C9: after a pass in which every call succeeded and no transaction was new,
\* the account's last_sync is the time of the pass.
C9_EmptyPassAdvances ==
    (last.valid /\ last.clean /\ last.pending = <<>>)
        => LastSyncOf(syncAccts, last.id) = last.at

\* C10: after a pass whose fetch failed, or whose append of the pending rows
\* failed, the account's last_sync is what it was before the pass.
C10_FailedPassKeepsLastSync ==
    (last.valid /\ (~last.fetchOk \/ (last.pending # <<>> /\ ~last.appendOk)))
        => /\ LastSyncOf(syncAccts, last.id) = last.lsBefore
           /\ LastSyncOf(LoadAccounts(file), last.id) = last.lsBefore

\* C11: of two calls of the legacy migration in succession, the first finding a
\* legacy credential that the provider accepts, the first adds one account,
\* archives the legacy file and returns success, and the second adds no
\* account and returns failure.
C11_MigrationSingleShot ==
    [][ (/\ lastOp.op = "migrate" /\ lastOp.legacy = "valid" /\ lastOp.providerOk
         /\ lastOp'.op = "migrate")
        => /\ lastOp.id # UnknownId /\ lastOp.ret
           /\ legacy = "absent"
           /\ lastOp'.id = UnknownId /\ ~lastOp'.ret ]_vars

\* a step of the migration failed: the legacy file could not be read or held no
\* credential, the provider rejected the credential, the registry could not be
\* saved, or the rename failed
MigrationFailed(o) ==
    \/ o.legacy \in {"unreadable", "notoken"}
    \/ o.legacy = "valid" /\ ~o.providerOk
    \/ o.save \in {"unchanged", "torn"}
    \/ o.id # UnknownId /\ ~o.rename

\* C12: after a call of the legacy migration in which a step failed, the
\* legacy file is as the call found it and the call has returned failure.
C12_FailedMigrationKeepsLegacy ==
    (lastOp.op = "migrate" /\ MigrationFailed(lastOp))
        => (legacy = lastOp.legacy /\ ~lastOp.ret)

\* kw occurs in s
Occurs(kw, s) ==
    \E i \in 1..Len(s) - Len(kw) + 1 : \A j \in 1..Len(kw) : s[i + j - 1] = kw[j]

\* rule k of the classifier applies to the lower-cased description n
RuleApplies(k, n) ==
    CASE k = 1 -> \E m \in BillPayMarkers : Occurs(m, n)
      [] k = 2 -> Occurs(ZelleMarker, n)
      [] k = 3 -> Occurs(CheckMarker, n)
      [] k = 4 -> \E e \in 1..Len(SUBCONTRACTOR_DATABASE) :
                     Occurs(SUBCONTRACTOR_DATABASE[e].keyword, n)
      [] k = 5 -> \E v \in MaterialVendors : Occurs(v, n)
      [] k = 6 -> \E v \in RentalVendors : Occurs(v, n)
      [] k = 7 -> \E v \in FuelVendors : Occurs(v, n)
      [] OTHER -> TRUE

\* tags is what rule k gives for the lower-cased description n
RuleGives(k, n, tags) ==
    CASE k = 1 -> tags = [category |-> "QuickBooks Bill Pay", project |-> "NEEDS REVIEW"]
      [] k = 2 -> tags = [category |-> "Zelle Payment", project |-> "Bellevue"]
      [] k = 3 -> tags = [category |-> "Subcontractor Payout", project |-> "Bellevue"]
      [] k = 4 -> /\ tags.project = "Bellevue"
                  /\ \E e \in 1..Len(SUBCONTRACTOR_DATABASE) :
                        /\ Occurs(SUBCONTRACTOR_DATABASE[e].keyword, n)
                        /\ tags.category = SUBCONTRACTOR_DATABASE[e].service
      [] k = 5 -> tags = [category |-> "Materials", project |-> "Bellevue"]
      [] k = 6 -> tags = [category |-> "Equipment Rental", project |-> "Bellevue"]
      [] k = 7 -> tags = [category |-> "Fuel", project |-> "Admin"]
      [] OTHER -> tags = [category |-> "Uncategorized", project |-> "Unknown"]

\* C13: the classifier's result is the one of the lowest-numbered rule, of the
\* eight in their order, whose marker occurs in the lower-cased description.
C13_FirstMatchWins ==
    classified.valid =>
        LET n     == Lower(classified.name)
            first == CHOOSE k \in 1..8 :
                        RuleApplies(k, n) /\ \A j \in 1..k - 1 : ~RuleApplies(j, n)
        IN  RuleGives(first, n, classified.tags)

\* C13: a description with the markers of two rules, the fuel vendors' and the
\* bill-pay one, was classified by the bill-pay rule.
C13_Witness ==
    /\ classified.valid
    /\ RuleApplies(1, Lower(classified.name))
    /\ RuleApplies(7, Lower(classified.name))
    /\ classified.tags.category = "QuickBooks Bill Pay"

\* the results the rules of the classifier give
AllTags ==
    {[category |-> "QuickBooks Bill Pay", project |-> "NEEDS REVIEW"],
     [category |-> "Zelle Payment", project |-> "Bellevue"],
     [category |-> "Subcontractor Payout", project |-> "Bellevue"],
     [category |-> "Materials", project |-> "Bellevue"],
     [category |-> "Equipment Rental", project |-> "Bellevue"],
     [category |-> "Fuel", project |-> "Admin"],
     [category |-> "Uncategorized", project |-> "Unknown"]}
    \cup {[category |-> SUBCONTRACTOR_DATABASE[e].service, project |-> "Bellevue"] :
             e \in 1..Len(SUBCONTRACTOR_DATABASE)}

\* C14: the classifier gives every transaction a result, one of the results of
\* its rules; the result is the one the classifier gives that description in
\* any other state; and a transaction whose description is empty or missing
\* gets ("Uncategorized", "Unknown").
C14_TotalWithDefault ==
    classified.valid =>
        /\ classified.tags \in AllTags
        /\ classified.tags =
              categorize_transaction(IF classified.has_name THEN classified.name ELSE <<>>)
        /\ (~classified.has_name \/ classified.name = <<>>)
              => classified.tags = [category |-> "Uncategorized", project |-> "Unknown"]

\* C14: a transaction without a description was classified.
C14_Witness ==
    /\ classified.valid /\ ~classified.has_name
    /\ classified.tags = [category |-> "Uncategorized", project |-> "Unknown"]

\* C15: whenever another process reads the registry file, it holds a complete
\* registry: no save leaves it truncated or partly written.
C15_NeverTorn == file.state = "ok"

\* C16: an add_account whose save of the registry failed has returned failure.
C16_FailedSaveIsReported ==
    (lastOp.op = "register" /\ lastOp.save \in {"unchanged", "torn"}) => ~lastOp.ret

\* the record of account id in accts
AccountOf(accts, id) == accts[CHOOSE i \in 1..Len(accts) : accts[i].id = id]

\* C17: after an add_account whose credential the provider rejected (it did not
\* answer, or does not know the credential), the call has returned failure and
\* the registry is what it was, in the manager and in the file.
C17_RejectedRegisterChangesNothing ==
    [][ (lastOp'.op = "register"
         /\ (~lastOp'.providerOk \/ lastOp'.token \notin ValidCredentials))
        => (~lastOp'.ret /\ mgr' = mgr /\ file' = file) ]_vars

\* C17: a credential was rejected while an account was registered.
C17_Witness ==
    /\ lastOp.op = "register" /\ lastOp.token \notin ValidCredentials /\ ~lastOp.ret
    /\ Len(mgr) = 1 /\ LoadAccounts(file) = mgr

C19_MarkSyncedFrame ==
    [][ lastOp'.op = "mark" =>
          IF lastOp'.id \in Ids(mgr)
          THEN /\ Len(mgr') = Len(mgr)
               /\ \A i \in 1..Len(mgr) :
                     IF mgr[i].id = lastOp'.id
                     THEN /\ mgr'[i] = [mgr[i] EXCEPT !.last_sync = mgr'[i].last_sync]
                          /\ mgr'[i].last_sync = now
                     ELSE mgr'[i] = mgr[i]
          ELSE mgr' = mgr /\ file' = file ]_vars

\* C19: of two accounts the second was marked synced, the first never.
C19_Witness ==
    /\ lastOp.op = "mark"
    /\ Len(mgr) = 2
    /\ mgr[2].id = lastOp.id /\ mgr[2].last_sync = now
    /\ mgr[1].last_sync = None

\* C20: an account added without a name has the institution's name, as the
\* provider reports it, as its account_name.
C20_NameDefaultsToInstitution ==
    (lastOp.op = "register" /\ lastOp.ret /\ lastOp.name = NoName)
        => AccountOf(mgr, lastOp.id).account_name = Institution(lastOp.token)

\* the rows of a ledger that record the transaction id
RowsOf(rows, id) == {i \in 1..Len(rows) : rows[i] # HeaderRow /\ rows[i][1] = id}

\* the provider returns no transaction id twice
DistinctUpstream ==
    \A c \in DOMAIN upstream : \A i, j \in 1..Len(upstream[c]) :
        upstream[c][i] = upstream[c][j] => i = j

\* C21: when a sync was killed and the run that follows it, with the same
\* upstream data, completed without a failed call, the ledger of every account
\* holds exactly one row for each transaction the provider returns for it.
C21_KilledRunIsRepaired ==
    (kill = "recovered" /\ DistinctUpstream) =>
        \A i \in 1..Len(syncAccts) :
            /\ syncAccts[i].sheet_name \in DOMAIN sheets
            /\ \A k \in 1..Len(upstream[syncAccts[i].access_token]) :
                  Cardinality(RowsOf(sheets[syncAccts[i].sheet_name],
                                     upstream[syncAccts[i].access_token][k])) = 1

\* C22: after a pass in which the read of the ledger's transaction ids failed,
\* the ledger holds no row that it did not hold before the pass (the header of
\* a ledger the pass created apart).
C22_FailedReadAppendsNothing ==
    (last.valid /\ ~last.readOk /\ last.sheet \in DOMAIN sheets) =>
        \A i \in 1..Len(sheets[last.sheet]) :
            i > Len(last.before) => sheets[last.sheet][i] = HeaderRow

\* C23: the first row of every ledger that holds a row is the header, so that
\* the scan of the ids, which starts at the second row, passes over no
\* transaction row.
C23_FirstRowIsHeader ==
    \A s \in DOMAIN sheets : sheets[s] # <<>> => sheets[s][1] = HeaderRow

\* C24: the sheet_name of every account of the registry, in the manager and in
\* the registry file, has at most 100 characters.
C24_SheetNameLength ==
    /\ \A i \in 1..Len(mgr) : Len(mgr[i].sheet_name) <= MaxSheetNameLen
    /\ \A i \in 1..Len(LoadAccounts(file)) :
          Len(LoadAccounts(file)[i].sheet_name) <= MaxSheetNameLen

\* the entries of the table whose keyword occurs in the lower-cased description n
Hits(n) ==
    {e \in 1..Len(SUBCONTRACTOR_DATABASE) : Occurs(SUBCONTRACTOR_DATABASE[e].keyword, n)}

\* the lower-cased description n gets as far as the scan of the table and
\* an entry is a hit
ReachesTable(n) ==
    /\ ~RuleApplies(1, n) /\ ~RuleApplies(2, n) /\ ~RuleApplies(3, n)
    /\ Hits(n) # {}

\* C25 as stated: for every description that the scan of the table decides,
\* the category is the one the scan gives in any order of the table.
C25_AnyOrderSameCategory ==
    (classified.valid /\ ReachesTable(Lower(classified.name))) =>
        \A o \in Orders : ScanIn(o, Lower(classified.name), 1) = classified.tags.category

\* C25, amended: for every description that the scan of the table decides, the
\* scan gives in any order of the table the service of an entry whose keyword
\* occurs in the description, the one scanned first; the category is the same
\* in every order when all these entries have the same service, as they do
\* when the keyword of one entry only occurs.
C25_OrderMattersOnlyAmongHits ==
    (classified.valid /\ ReachesTable(Lower(classified.name))) =>
        LET n    == Lower(classified.name)
            hits == Hits(n)
        IN  /\ \A o \in Orders :
                  \E k \in 1..Len(o) :
                     /\ o[k] \in hits
                     /\ \A j \in 1..k - 1 : o[j] \notin hits
                     /\ ScanIn(o, n, 1) = SUBCONTRACTOR_DATABASE[o[k]].service
            /\ classified.tags.category =
                  SUBCONTRACTOR_DATABASE[CHOOSE e \in hits : \A f \in hits : e <= f].service
            /\ (\A e, f \in hits :
                    SUBCONTRACTOR_DATABASE[e].service = SUBCONTRACTOR_DATABASE[f].service)
                  => \A o \in Orders : ScanIn(o, n, 1) = classified.tags.category

\* C25: a description with the keywords of two entries of the same service,
\* the third and the sixth, was classified.
C25_Witness ==
    /\ classified.valid /\ ReachesTable(Lower(classified.name))
    /\ Hits(Lower(classified.name)) = {3, 6}
    /\ classified.tags.category = "Drywall & Paint"

\* rows are the rows of some of the transactions ids, in the order of ids
InOrderOf(rows, ids) ==
    \E f \in [1..Len(rows) -> 1..Len(ids)] :
        /\ \A k \in 1..Len(rows) : rows[k] = Row(ids[f[k]])
        /\ \A k \in 1..Len(rows) - 1 : f[k] < f[k + 1]

\* C26: a pass that appends leaves the ledger with the rows it had (the header,
\* for a ledger the pass created), in their places, followed by rows of fetched
\* transactions in the order in which the provider returned them.
C26_ArrivalOrder ==
    [][ (last'.valid /\ last'.appendOk) =>
          LET base  == IF last'.ensure = "created" THEN <<HeaderRow>> ELSE last'.before
              after == sheets'[last'.sheet]
          IN  /\ last'.before = (IF last'.sheet \in DOMAIN sheets
                                 THEN sheets[last'.sheet] ELSE <<>>)
              /\ IsPrefix(base, after)
              /\ Len(after) > Len(base)
              /\ InOrderOf(SubSeq(after, Len(base) + 1, Len(after)), last'.fetched) ]_vars

\* C26: a pass appended the rows of two transactions, in the provider's order,
\* below the row an earlier pass had appended.
C26_Witness ==
    /\ last.valid /\ last.appendOk
    /\ Len(last.before) = 2 /\ last.before[1] = HeaderRow
    /\ Len(last.fetched) = 2 /\ last.fetched[1] # last.fetched[2]
    /\ sheets[last.sheet] =
          last.before \o <<Row(last.fetched[1]), Row(last.fetched[2])>>

\* C27: categorize of finance_tracker_sheets.py and categorize_transaction of
\* sync.py give every transaction the same category and the same project.
C27_ClassifiersAgree ==
    classified.valid => classified.sheets_tags = classified.tags

\* C27: both classifiers were given a description in mixed case that the scan
\* of the table decides, and both found the service.
C27_Witness ==
    /\ classified.valid
    /\ classified.name # Lower(classified.name)
    /\ ReachesTable(Lower(classified.name))
    /\ classified.sheets_tags = classified.tags
    /\ classified.tags.project = "Bellevue"

\* C28: a pass of a running sync leaves the registry file with the accounts
\* that the account manager's registers and deregisters have left in it: the
\* save of the pass adds no account, removes none, and changes nothing in an
\* account other than the one it synced.
C28_NoLostUpdate ==
    [][ (last'.valid /\ last' # last) =>
          LET old == LoadAccounts(file)
              new == LoadAccounts(file')
          IN  /\ Ids(new) = Ids(old)
              /\ \A id \in Ids(old) \ {last'.id} : AccountOf(new, id) = AccountOf(old, id) ]_vars

\* C29: an account that is in the registry file is in it after any step, unless
\* the step is a remove_account of that account: no add_account, migration or
\* update_last_sync writes a registry without it.
C29_PersistedAccountsStay ==
    [][ \A id \in Ids(LoadAccounts(file)) :
           \/ id \in Ids(LoadAccounts(file'))
           \/ lastOp'.op = "deregister" /\ lastOp'.id = id /\ lastOp'.ret ]_vars

\* C30: add_account gives the new account no sheet_name of a sheet that holds
\* transaction rows, the rows of an account that was removed: the rows of an
\* account's ledger are rows recorded for that account.
C30_NoLedgerInherited ==
    [][ (lastReg'.valid /\ lastReg' # lastReg /\ lastReg'.sheet \in DOMAIN sheets) =>
          \A r \in 1..Len(sheets[lastReg'.sheet]) :
              sheets[lastReg'.sheet][r] = HeaderRow ]_vars

=============================================================================
